---- MODULE Spec2Model ----
(***************************************************************************)
(* A model of the DLCoal reconciliation search (dlcoal/__init__.py):       *)
(* the hill-climbing driver DLCoalRecon, the candidate proposer            *)
(* DLCoalReconProposer, the uniqueness filter UniqueTreeSearch, the record *)
(* Recon and the scoring function prob_dlcoal_recon_topology.              *)
(*                                                                         *)
(* Log-probabilities are fixed-point numbers in units of log 2, so that    *)
(* log(.5) is exactly -1; negative infinity is the value NegInf, which     *)
(* absorbs addition as the IEEE value does.  Linear probabilities are      *)
(* fractions over a power of two.                                          *)
(***************************************************************************)
EXTENDS Integers, Sequences, FiniteSets, TLC

(***************************************************************************)
(* Bounds of the model.                                                    *)
(***************************************************************************)
\* recon(nsearch) is called with nsearch in 0..MaxSearch
MaxSearch == 3
\* the constructor argument num_coal_recons (default 5) of the proposer
NumCoalRecons == 2
\* the constructor argument maxtries (default 5) of UniqueTreeSearch
MaxTries == 2
\* nsamples is in 1..MaxSamples
MaxSamples == 2
\* the reconciliation enumerator of a locus tree yields 0..MaxEnum variants
MaxEnum == 3
\* UniqueTreeSearch.propose is called at most MaxProposals times on a
\* search that is driven alone
MaxProposals == 4
\* standalone calls of prob_dlcoal_recon_topology in one process
MaxCalls == 2
\* prob_locus_coal_recon_topology is called with 0..MaxDaughters daughters
MaxDaughters == 2
\* the data of a record holds dictionaries nested up to MaxDepth deep
MaxDepth == 2
\* rename_nodes is called on trees of 0..MaxNodes nodes
MaxNodes == 3
\* the locus tree that sample_dlcoal draws has 0..MaxInternal internal nodes
MaxInternal == 2

(***************************************************************************)
(* Log-domain arithmetic.                                                  *)
(***************************************************************************)
\* - util.INF
NegInf == -1000

\* log(.5), in units of log 2
LogHalf == -1

\* float addition: negative infinity absorbs
FAdd(a, b) == IF a = NegInf \/ b = NegInf THEN NegInf ELSE a + b

\* exp(x) as a numerator over ExpDen (linear probabilities are counted in
\* halves, which is exact for x >= -1); exp(-inf) is 0
ExpNum(x) == IF x = NegInf THEN 0 ELSE 2 ^ (x + 1)

ExpDen == 2 ^ 1

RECURSIVE FloorLog2Down(_, _, _)
\* the largest k <= 0 with 2^k <= num / den, for 0 < num <= den
FloorLog2Down(num, den, k) ==
    IF den <= num * (2 ^ (0 - k)) THEN k ELSE FloorLog2Down(num, den, k - 1)

RECURSIVE FloorLog2Up(_, _, _)
\* the largest k >= 0 with 2^k <= num / den, for num >= den > 0
FloorLog2Up(num, den, k) ==
    IF num < den * (2 ^ (k + 1)) THEN k ELSE FloorLog2Up(num, den, k + 1)

\* util.safelog(num / den): zero or negative input maps to negative infinity;
\* the logarithm is rounded down to the fixed-point grid
SafeLog(num, den) ==
    IF num <= 0 THEN NegInf
    ELSE IF num >= den THEN FloorLog2Up(num, den, 0)
    ELSE FloorLog2Down(num, den, 0)

\* the values the delegated subroutines return in the model: the
\* duplication-loss log prior, the multispecies coalescent log-likelihood
\* and the bounded-coalescent completion log-probability
DlProbs == {NegInf, 0}

SampleLnps == {NegInf, 0}

CdfLnps == {NegInf, 0 - 1, 0}

\* the timings duploss.sample_dup_times draws
Times == {1, 2}

\* the topologies the rearrangement operator moves between: the three
\* unrooted topologies of four leaves, each one move away from the others
Tops == {1, 2, 3}

(***************************************************************************)
(* prob_locus_coal_recon_topology: the generic multispecies coalescent     *)
(* log-likelihood lnp, less the completion log-probability of every        *)
(* daughter; cdfs lists what coal.cdf_mrca_bounded_multicoal returns for   *)
(* the daughters, in the order the loop visits them.                       *)
(***************************************************************************)
\* a sentinel test that never fires
ImpossibleNever(q) == FALSE

\* if p == -util.INF
Impossible(q) == q = NegInf

RECURSIVE DaughterLoop(_, _, _)
DaughterLoop(lnp, cdfs, ncalls) ==
    IF cdfs = << >> THEN [val |-> lnp, ncalls |-> ncalls]
    ELSE IF Impossible(Head(cdfs))
    THEN [val |-> NegInf, ncalls |-> ncalls + 1]
    ELSE DaughterLoop(IF lnp = NegInf THEN NegInf ELSE lnp - Head(cdfs),
                      Tail(cdfs), ncalls + 1)

ProbLocusCoalReconTopology(lnp, cdfs) == DaughterLoop(lnp, cdfs, 0)

RECURSIVE SumExp(_)
\* prob += exp(coal_prob), over the samples
SumExp(s) ==
    IF s = << >> THEN 0
    ELSE ExpNum(ProbLocusCoalReconTopology(Head(s).lnp, Head(s).cdfs).val)
         + SumExp(Tail(s))

(***************************************************************************)
(* prob_dlcoal_recon_topology.                                             *)
(*   fallback : "dlcoal_python_fallback" in globals()                      *)
(*   dists    : the branch lengths of locus_tree on entry                  *)
(*   dups     : phylo.count_dup(locus_tree, locus_events)                  *)
(*   withInfo : info is not None                                           *)
(*   env      : what the delegated subroutines do in this call:            *)
(*       native_raises  spidir.calc_birth_death_prior raises               *)
(*       dl             the duplication-loss log prior                     *)
(*       fault          "none", or the delegate that raises: "fallback"    *)
(*                      (the import or dup_loss_topology_prior),           *)
(*                      "sampler" (sample_dup_times), "coal"               *)
(*                      (prob_locus_coal_recon_topology)                   *)
(*       samples        per sample: the timing drawn and the likelihood    *)
(* The result holds the exception that escapes ("none" when the call       *)
(* returns), the returned value, the info mapping, the effects and the     *)
(* delegates that raised, in order.                                        *)
(***************************************************************************)
InfoKeys == {"duploss_prob", "daughters_prob", "coal_prob", "prob"}

EmptyDict == [k \in {} |-> 0]

\* the name topology_prior is local to the function: it is bound only in
\* the call that runs "from spidir import topology_prior"
TopologyPriorBound(fallback) == ~fallback

\* d_prob = dups * log(.5)
DaughtersProb(dups) == dups * LogHalf

CoalTerm(samples) == SafeLog(SumExp(samples), Len(samples) * ExpDen)

\* a total that leaves out the daughter prior
TotalProbNoDaughters(dl, d, c) == FAdd(dl, c)

\* dl_prob + d_prob + util.safelog(prob / nsamples)
TotalProb(dl, d, c) == FAdd(FAdd(dl, d), c)

\* the info mapping filled at "logging info"
FillInfo(dl, d, c) ==
    [k \in InfoKeys |->
        CASE k = "duploss_prob" -> dl
          [] k = "daughters_prob" -> d
          [] k = "coal_prob" -> c
          [] OTHER -> TotalProb(dl, d, c)]

\* a handler that writes the warning whenever the native routine fails
FallbackUnsetAlways(fallback) == TRUE

\* if "dlcoal_python_fallback" not in globals()
FallbackUnset(fallback) == ~fallback

ProbDlcoalReconTopology(fallback, dists, dups, withInfo, env) ==
    LET first == env.native_raises /\ FallbackUnset(fallback)
        flag == fallback \/ env.native_raises
        base == [exc |-> "none", ret |-> NegInf, info |-> EmptyDict,
                 fallback |-> flag, warned |-> IF first THEN 1 ELSE 0,
                 native_calls |-> 1,
                 used |-> IF env.native_raises THEN "fallback" ELSE "native",
                 dists |-> dists,
                 raised |-> IF env.native_raises
                            THEN <<"calc_birth_death_prior">> ELSE << >>]
        d == DaughtersProb(dups)
        c == CoalTerm(env.samples)
        last == env.samples[Len(env.samples)]
    IN  IF env.native_raises /\ ~TopologyPriorBound(fallback)
        THEN [base EXCEPT !.exc = "UnboundLocalError", !.used = "none"]
        ELSE IF env.native_raises /\ env.fault = "fallback"
        THEN [base EXCEPT !.exc = "Error", !.used = "none",
                          !.raised = Append(@, "dup_loss_topology_prior")]
        ELSE IF env.fault = "sampler"
        THEN [base EXCEPT !.exc = "Error",
                          !.raised = Append(@, "sample_dup_times")]
        ELSE IF env.fault = "coal"
        THEN [base EXCEPT !.exc = "Error", !.dists = env.samples[1].time,
                          !.raised =
                              Append(@, "prob_locus_coal_recon_topology")]
        ELSE [base EXCEPT !.ret = TotalProb(env.dl, d, c),
                          !.info = IF withInfo THEN FillInfo(env.dl, d, c)
                                   ELSE EmptyDict,
                          !.dists = last.time]

(***************************************************************************)
(* Trees.  A tree object is abstracted to its canonical topology, its      *)
(* branch lengths (0: those of the coalescent tree; t > 0: set from the    *)
(* t-th timing of the sampler), the names of its nodes in postorder, the   *)
(* counter from which it draws new node names and whether it was re-rooted *)
(* against the species tree.  A node name is an integer k, or the string   *)
(* made of a prefix and the digits of k.  obj tells which object the tree  *)
(* is: the coalescent tree of the caller, the tree the locus search works  *)
(* on, or the locus tree of a proposal (these are stored, and told apart,  *)
(* by address); a change made in place to an object shows through every    *)
(* reference to it.                                                        *)
(***************************************************************************)
IntName(k) == [int |-> TRUE, pre |-> "", num |-> k]

\* prefix + str(k)
StrName(prefix, k) == [int |-> FALSE, pre |-> prefix, num |-> k]

NoTree ==
    [top |-> 0, dists |-> 0, names |-> << >>, name_iter |-> 0,
     rerooted |-> FALSE, obj |-> "none"]

\* a copy that hands back the tree it was asked to copy
CopyTreeAlias(t, obj) == t

\* tree.copy(): a new object, obj, with the content of t
CopyTree(t, obj) == [t EXCEPT !.obj = obj]

\* a proposal built on the tree the locus search works on
ProposalTreeShared(t) == t

\* self._locus_search.get_tree().copy(): the locus tree of a proposal
ProposalTree(t) == CopyTree(t, "proposal")

\* what a reference to the tree object ref shows after the tree object t
\* was changed in place to its present content
Seen(ref, t) == IF t.obj = ref.obj THEN t ELSE ref

\* phylo.hash_tree: the canonical hash sees the topology only
TreeHash(t) == t.top

\* phylo.recon_root(locus_tree, stree, gene2species, newCopy=False)
ReconRoot(t) == [t EXCEPT !.rerooted = TRUE]

\* the default of the parameter prefix of rename_nodes
DefaultPrefix == "n"

\* the default of the parameter name_internal of DLCoalRecon
NameInternal == "n"

\* a test that never sees a name as taken
TakenNever(names, name2) == FALSE

\* name2 in tree.nodes
Taken(names, name2) == \E j \in 1 .. Len(names) : names[j] = name2

RECURSIVE FreshName(_, _, _, _)
\* while name2 in tree.nodes: name2 = prefix + str(tree.new_name());
\* tree.new_name() hands out the counter of the tree and advances it
FreshName(names, prefix, name2, iter) ==
    IF Taken(names, name2)
    THEN FreshName(names, prefix, StrName(prefix, iter), iter + 1)
    ELSE [name |-> name2, iter |-> iter]

\* the body of the loop of rename_nodes for the j-th node of the list
RenameNode(t, prefix, j) ==
    IF ~t.names[j].int THEN t
    ELSE LET f == FreshName(t.names, prefix,
                            StrName(prefix, t.names[j].num), t.name_iter)
         IN  [t EXCEPT !.names[j] = f.name, !.name_iter = f.iter]

\* the element of a set of one element
The(S) == CHOOSE x \in S : TRUE

RECURSIVE RenameFrom(_, _, _)
\* the loop of rename_nodes from the j-th node of the postorder list on
\* (the tree after each node is a value of its own)
RenameFrom(t, prefix, j) ==
    IF j > Len(t.names) THEN t
    ELSE The({RenameFrom(v, prefix, j + 1) : v \in {RenameNode(t, prefix, j)}})

\* rename_nodes(tree, prefix)
RenameNodes(t, prefix) == RenameFrom(t, prefix, 1)

\* treelib.set_dists_from_timestamps(locus_tree, locus_times)
SetDists(t, time) == [t EXCEPT !.dists = time]

\* phylo.count_dup(locus_tree, locus_events) of the LCA reconciliation:
\* topology 1 is congruent with the species tree
CountDup(top) == IF top = 1 THEN 0 ELSE 1

(***************************************************************************)
(* The rearrangement operator behind UniqueTreeSearch (phylo.TreeSearchNni *)
(* in DLCoalTreeSearch): propose() moves the tree to a neighbouring        *)
(* topology, revert() restores the tree prior to the last proposal.        *)
(* A search is [tree, last, seen]: the tree it works on, the topology      *)
(* before the delegate's outstanding move (0: none) and the seen hashes.   *)
(***************************************************************************)
Neighbours(top) == Tops \ {top}

DelegatePropose(us, top) ==
    [us EXCEPT !.last = us.tree.top, !.tree.top = top]

DelegateRevert(us) ==
    IF us.last = 0 THEN us
    ELSE [us EXCEPT !.tree.top = us.last, !.last = 0]

DelegateSetTree(us, tree) == [us EXCEPT !.tree = tree, !.last = 0]

(***************************************************************************)
(* UniqueTreeSearch                                                        *)
(***************************************************************************)
NewSearch == [tree |-> NoTree, last |-> 0, seen |-> {}]

\* UniqueTreeSearch.set_tree
SetTree(us, tree) == DelegateSetTree(us, tree)

\* UniqueTreeSearch.reset
Reset(us) == [us EXCEPT !.seen = {}, !.last = 0]

\* the test that ends the retry loop
Novel(seen, top) == top \notin seen

\* a loop that forgets to record the hash it returns
RecordNothing(seen, top) == seen

\* the hash recorded after the loop
Record(seen, top) == seen \cup {top}

\* a loop that never takes back the proposal of the attempt before
RevertFirstNever(k) == FALSE

\* if i > 0: self.search.revert()
RevertFirst(k) == k > 0

\* the delegate as attempt k (counted from 0) finds it when it is asked to
\* propose
AttemptBase(us, k) == IF RevertFirst(k) THEN DelegateRevert(us) ELSE us

\* a loop whose budget is one attempt short
LoopEndsEarly(seen, top, k, n) == Novel(seen, top) \/ k + 2 >= n

\* a loop that goes on to the end of its budget whatever the hash
LoopEndsAtBudgetOnly(seen, top, k, n) == k + 1 >= n

\* the loop ends after attempt k of n: its hash is not in seen (break), or
\* the budget is used
LoopEnds(seen, top, k, n) == Novel(seen, top) \/ k + 1 >= n

RECURSIVE Attempts(_, _, _)
\* The runs of the retry loop from attempt k on, of n attempts in all: the
\* topologies that the delegate, in state us, proposes attempt by attempt
\* (each a rearrangement of the tree it holds when it is asked).
Attempts(us, k, n) ==
    UNION {UNION {IF LoopEnds(us.seen, TreeHash(moved.tree), k, n)
                  THEN {<<moved.tree.top>>}
                  ELSE {<<moved.tree.top>> \o r :
                            r \in Attempts(moved, k + 1, n)} :
                  moved \in {DelegatePropose(base, t) :
                                 t \in Neighbours(base.tree.top)}} :
           base \in {AttemptBase(us, k)}}

RECURSIVE ProposeLoop(_, _, _)
\* the run of the loop in which the delegate proposes tops, from attempt k
\* on: the delegate afterwards (search), the topology it held each time it
\* was asked to propose (asked), and the calls made on it, in order
ProposeLoop(us, tops, k) ==
    IF k >= Len(tops) THEN [search |-> us, asked |-> << >>, calls |-> << >>]
    ELSE The({[rest EXCEPT
                 !.asked = <<base.tree.top>> \o @,
                 !.calls = (IF RevertFirst(k) THEN <<"search.revert">>
                            ELSE << >>) \o <<"search.propose">> \o @] :
              base \in {AttemptBase(us, k)},
              rest \in {ProposeLoop(moved, tops, k + 1) :
                           moved \in {DelegatePropose(AttemptBase(us, k),
                                                      tops[k + 1])}}})

\* UniqueTreeSearch.propose, for one run of the loop
Propose(us, tops) ==
    LET moved == ProposeLoop(us, tops, 0).search
    IN  [moved EXCEPT !.seen = Record(us.seen, TreeHash(moved.tree))]

\* a revert that also takes the hash of the reverted topology out of the
\* seen set
RevertForgets(us) ==
    [DelegateRevert(us) EXCEPT !.seen = @ \ {TreeHash(us.tree)}]

\* UniqueTreeSearch.revert
Revert(us) == DelegateRevert(us)

\* the delegate calls of one run of the loop, in order
ProposeCalls(us, tops) == ProposeLoop(us, tops, 0).calls

(***************************************************************************)
(* Recon                                                                   *)
(* coal_recon and locus_tree are references (heap addresses); cand is the  *)
(* number of the candidate as which the record was last returned.          *)
(***************************************************************************)
NoRecon == [cand |-> 0, coal_recon |-> 0, locus_tree |-> 0, locus_recon |-> 0,
            locus_events |-> 0, daughters |-> {}, data |-> EmptyDict]

\* Recon.copy: the fields are shared, the data is deep-copied
CopyRecon(r) ==
    [cand |-> r.cand, coal_recon |-> r.coal_recon, locus_tree |-> r.locus_tree,
     locus_recon |-> r.locus_recon, locus_events |-> r.locus_events,
     daughters |-> r.daughters, data |-> r.data]

\* a dictionary that also carries the data of the record
GetDictWithData(r) ==
    [coal_recon |-> r.coal_recon, locus_tree |-> r.locus_tree,
     locus_recon |-> r.locus_recon, locus_events |-> r.locus_events,
     daughters |-> r.daughters, data |-> r.data]

\* Recon.get_dict
GetDict(r) ==
    [coal_recon |-> r.coal_recon, locus_tree |-> r.locus_tree,
     locus_recon |-> r.locus_recon, locus_events |-> r.locus_events,
     daughters |-> r.daughters]

(***************************************************************************)
(* The data of a record as an object: a dictionary object lives on a heap  *)
(* at an address; it has an entry "prob" (a number) and may have an entry  *)
(* "sub" whose value is another dictionary object (its address).           *)
(***************************************************************************)
\* the address of the next object allocated
Fresh(h) ==
    IF DOMAIN h = {} THEN 1
    ELSE 1 + CHOOSE a \in DOMAIN h : \A b \in DOMAIN h : b <= a

\* copy.copy: a new dictionary whose nested dictionary is the same object
ShallowCopy(h, a) == [heap |-> h @@ (Fresh(h) :> h[a]), addr |-> Fresh(h)]

RECURSIVE DeepCopy(_, _)
\* copy.deepcopy: a new dictionary whose nested dictionaries are new too
DeepCopy(h, a) ==
    IF "sub" \in DOMAIN h[a]
    THEN LET r == DeepCopy(h, h[a]["sub"])
             n == Fresh(r.heap)
         IN  [heap |-> r.heap @@ (n :> [h[a] EXCEPT !["sub"] = r.addr]),
              addr |-> n]
    ELSE [heap |-> h @@ (Fresh(h) :> h[a]), addr |-> Fresh(h)]

\* Recon.copy on the heap: the five fields are passed on as they are, the
\* data is deep-copied
CopyReconOnHeap(h, r) ==
    LET d == DeepCopy(h, r.data)
    IN  [recon |-> [CopyRecon(r) EXCEPT !.data = d.addr], heap |-> d.heap]

RECURSIVE ObjectAt(_, _, _)
\* the address of the dictionary k levels below the dictionary at a
\* (0: there is none)
ObjectAt(h, a, k) ==
    IF k = 0 THEN a
    ELSE IF "sub" \in DOMAIN h[a] THEN ObjectAt(h, h[a]["sub"], k - 1)
    ELSE 0

RECURSIVE Chain(_, _)
\* a heap with dictionaries nested d deep from address a on
Chain(a, d) ==
    IF d = 0 THEN (a :> ("prob" :> 0))
    ELSE (a :> ("prob" :> 0 @@ "sub" :> (a + 1))) @@ Chain(a + 1, d - 1)

VARIABLES
    pc,            \* where DLCoalRecon.recon is
    nsearch,       \* its argument
    nsamples,      \* DLCoalRecon.nsamples
    i,             \* the loop variable of recon
    p,             \* the score of the proposal being evaluated
    maxp,          \* DLCoalRecon.maxp
    maxrecon,      \* DLCoalRecon.maxrecon
    recon_,        \* DLCoalReconProposer._recon, the proposal
    prop,          \* the proposer: _i_coal_recons, _accept_locus, ...
    enum_left,     \* variants the enumerator _coal_recon_enum still yields
    locus_search,  \* DLCoalReconProposer._locus_search
    coal_tree,     \* the coalescent tree
    trees,         \* heap: the locus tree objects the records refer to
    coal_recons,   \* heap: the coal_recon mappings the records refer to
    fallback,      \* "dlcoal_python_fallback" in globals()
    warned,        \* warnings written to stderr
    log,           \* the log stream
    calls,         \* the calls made by the last step, in order
    call,          \* the last call of prob_dlcoal_recon_topology
    ncalls,        \* standalone calls of prob_dlcoal_recon_topology made
    exc,           \* the exception that escaped the last call ("none": none)
    nscored,       \* candidates that eval_proposal has scored
    accepted,      \* what the calls of UniqueTreeSearch.propose returned
    heap,          \* heap: the dictionary objects that records hold as data
    result         \* what the entry point returned (<< >>: nothing yet)

vars == <<pc, nsearch, nsamples, i, p, maxp, maxrecon, recon_, prop,
          enum_left, locus_search, coal_tree, trees, coal_recons, fallback,
          warned, log, calls, call, ncalls, exc, nscored, accepted, heap,
          result>>

(***************************************************************************)
(* What the delegated subroutines may do in one scoring call, with n       *)
(* samples and nd daughters.  When a delegate raises, the values the       *)
(* others would have returned do not matter and are fixed.                 *)
(***************************************************************************)
Samples(n, nd) ==
    [1 .. n -> [time : Times, lnp : SampleLnps, cdfs : [1 .. nd -> CdfLnps]]]

Envs(n, nd) ==
    [native_raises : BOOLEAN, dl : DlProbs, fault : {"none"},
     samples : Samples(n, nd)]
    \cup
    {[native_raises |-> nr, dl |-> 0, fault |-> f,
      samples |-> [k \in 1 .. n |->
                     [time |-> t, lnp |-> 0, cdfs |-> [j \in 1 .. nd |-> 0]]]] :
        nr \in BOOLEAN, f \in {"fallback", "sampler", "coal"}, t \in Times}

NoCall == [exc |-> "none", ret |-> NegInf, info |-> EmptyDict,
           fallback |-> FALSE, warned |-> 0, native_calls |-> 0,
           used |-> "none", dists |-> 0, before |-> FALSE, withInfo |-> FALSE,
           dups |-> 0, native_raises |-> FALSE, dl |-> 0, fault |-> "none",
           lnps |-> << >>]

\* the record of a call: its outcome, with what it was called on and what
\* the delegates did (lnps: the likelihoods of the samples, in order)
CallRecord(r, before, withInfo, dups, env) ==
    [exc |-> r.exc, ret |-> r.ret, info |-> r.info, fallback |-> r.fallback,
     warned |-> r.warned, native_calls |-> r.native_calls, used |-> r.used,
     dists |-> r.dists, before |-> before, withInfo |-> withInfo,
     dups |-> dups, native_raises |-> env.native_raises, dl |-> env.dl,
     fault |-> env.fault,
     lnps |-> [k \in 1 .. Len(env.samples) |->
                 ProbLocusCoalReconTopology(env.samples[k].lnp,
                                            env.samples[k].cdfs).val]]

(***************************************************************************)
(* DLCoalReconProposer                                                     *)
(***************************************************************************)
NewProposer == [i_coal_recons |-> 0, i_coal_recon |-> 0, accept_locus |-> FALSE]

\* a proposal that makes the first duplication child a daughter
ProposeDaughtersFirst(tree) == {1}

\* propose daughters (TODO): daughters = set()
ProposeDaughters(tree) == {}

\* _recon_lca: the record built for the locus tree at address id; the LCA
\* reconciliation and the event labels are determined by the topology
ReconLca(id, tree, cand) ==
    [cand |-> cand, coal_recon |-> id, locus_tree |-> id,
     locus_recon |-> tree.top, locus_events |-> CountDup(tree.top),
     daughters |-> ProposeDaughters(tree), data |-> EmptyDict]

\* the assignment made when the enumerator raises StopIteration
StopIterationAssign(pr) == [pr EXCEPT !.i_coal_recon = NumCoalRecons]

\* a variant budget that is off by one
VariantsTriedLate(pr) == pr.i_coal_recons > NumCoalRecons

\* if self._i_coal_recons >= self._num_coal_recons
VariantsTried(pr) == pr.i_coal_recons >= NumCoalRecons

\* an enumerator that always has another variant
ExhaustedNever(left) == FALSE

\* self._coal_recon_enum.next() raises StopIteration
Exhausted(left) == left <= 0

RECURSIVE NextProposalWalk(_)
\* next_proposal up to the point where it either advanced the enumerator
\* ("variant") or entered the branch that proposes a new locus tree
\* ("topology"); w is [kind, prop, enum_left, calls]
NextProposalWalk(w) ==
    IF VariantsTried(w.prop) THEN [w EXCEPT !.kind = "topology"]
    ELSE LET p1 == [w.prop EXCEPT !.i_coal_recons = @ + 1]
             c1 == Append(w.calls, "enum.next")
         IN  IF ~Exhausted(w.enum_left)
             THEN [kind |-> "variant", prop |-> p1,
                   enum_left |-> w.enum_left - 1, calls |-> c1]
             ELSE NextProposalWalk([kind |-> "", prop |-> StopIterationAssign(p1),
                                    enum_left |-> 0, calls |-> c1])

\* a proposer that never reverts
NeedsRevertNever(pr) == FALSE

\* a proposer that reverts before every move
NeedsRevertAlways(pr) == TRUE

\* if not self._accept_locus
NeedsRevert(pr) == ~pr.accept_locus

\* an accept that does not tell the topology search
AcceptNoop(pr) == pr

\* accept
Accept(pr) == [pr EXCEPT !.accept_locus = TRUE]

\* reject
Reject(pr) == pr

\* a proposer that builds a new record, with a mapping object of its own,
\* from what the enumerator yields
VariantReconRebuilt(r, cand) == [r EXCEPT !.cand = cand, !.coal_recon = cand]

\* next_proposal, variant branch: what the enumerator yields is dropped and
\* self._recon, the record object returned before, is returned again
VariantRecon(r, cand) == [r EXCEPT !.cand = cand]

\* the heap cells that the proposal and the best record still refer to
Live(cells, r1, r2) ==
    [k \in {r1.locus_tree, r2.locus_tree} \cap DOMAIN cells |-> cells[k]]

(***************************************************************************)
(* DLCoalRecon                                                             *)
(***************************************************************************)
\* a comparison with the impossible score instead of the best score
BetterThanImpossible(score, best) == score > NegInf

\* a comparison that also lets a tie replace the best record
BetterOrEqual(score, best) == score >= best

\* if p > self.maxp
Better(score, best) == score > best

\* a best score that starts at probability one instead of zero
InitMaxpZero == LogHalf - LogHalf

\* self.maxp = - util.INF
InitMaxp == NegInf

\* a loop that runs once more than its budget
LoopContinuesOneMore(k, n) == k <= n

\* for i in xrange(nsearch), after k iterations
LoopContinues(k, n) == k < n

\* repr(proposal), abstracted to the candidate and its score
Repr(r) == [cand |-> r.cand, prob |-> r.data["prob"]]

\* a log that is written only for a candidate with a finite score
LogProposalFinite(stream, r) ==
    IF r.data["prob"] = NegInf THEN stream ELSE Append(stream, Repr(r))

\* log_proposal
LogProposal(stream, r) == Append(stream, Repr(r))

\* the coalescent tree given: congruent with the species tree (topology 1)
\* or not, its internal nodes named by integers as treelib names them; in
\* the first a leaf has the name that renaming would give an internal node
CoalTrees ==
    {[top |-> t, dists |-> 0,
      names |-> IF t = 1
                THEN <<IntName(1), StrName(DefaultPrefix, 1), IntName(2)>>
                ELSE <<IntName(1), IntName(2)>>,
      name_iter |-> 3, rerooted |-> FALSE, obj |-> "coal_tree"] :
        t \in {1, 2}}

Init ==
    /\ pc = "start"
    /\ nsearch \in 0 .. MaxSearch
    /\ nsamples = 1
    /\ i = 0
    /\ p = NegInf
    /\ maxp = NegInf
    /\ maxrecon = NoRecon
    /\ recon_ = NoRecon
    /\ prop = NewProposer
    /\ enum_left = 0
    /\ locus_search = NewSearch
    /\ coal_tree \in CoalTrees
    /\ trees = << >>
    /\ coal_recons = << >>
    /\ fallback = FALSE
    /\ warned = 0
    /\ log = << >>
    /\ calls = << >>
    /\ call = NoCall
    /\ ncalls = 0
    /\ exc = "none"
    /\ nscored = 0
    /\ accepted = << >>
    /\ heap = << >>
    /\ result = << >>

\* recon: init_search(), proposer.init_proposal(), maxrecon = proposal.copy()
InitSearch ==
    /\ pc = "start"
    /\ \E el \in 0 .. MaxEnum :
        LET ls == SetTree(locus_search, CopyTree(coal_tree, "search"))
            lt == ProposalTree(ls.tree)
            r == ReconLca(1, lt, 1)
        IN  /\ locus_search' = ls
            /\ prop' = [prop EXCEPT !.i_coal_recons = 0]
            /\ trees' = (1 :> lt)
            /\ coal_recons' = (1 :> 0)
            /\ enum_left' = el
            /\ recon_' = r
            /\ maxrecon' = CopyRecon(r)
    /\ maxp' = InitMaxp
    /\ calls' = <<"init_search", "init_proposal", "copy">>
    /\ pc' = IF LoopContinues(0, nsearch) THEN "eval" ELSE "finalize"
    /\ UNCHANGED <<nsearch, nsamples, i, p, coal_tree, fallback, warned, log,
                   call, ncalls, exc, nscored, accepted,
                   heap, result>>

\* a driver that goes on as if the call had returned
EscapesNever(e) == FALSE

\* eval_proposal and recon have no handler: an exception of the scoring
\* call leaves them
Escapes(e) == e # "none"

\* recon: p = self.eval_proposal(proposal)
EvalProposal ==
    /\ pc = "eval"
    /\ \E env \in Envs(nsamples, Cardinality(recon_.daughters)) :
        LET id == recon_.locus_tree
            dups == recon_.locus_events
            r == ProbDlcoalReconTopology(fallback, trees[id].dists, dups,
                                         TRUE, env)
        IN  /\ trees' = [trees EXCEPT ![id] = SetDists(@, r.dists)]
            /\ coal_tree' = Seen(coal_tree, trees'[id])
            /\ locus_search' = [locus_search EXCEPT
                                  !.tree = Seen(@, trees'[id])]
            /\ fallback' = r.fallback
            /\ warned' = warned + r.warned
            /\ exc' = r.exc
            /\ IF Escapes(r.exc)
               THEN /\ pc' = "raised"
                    /\ UNCHANGED <<p, recon_>>
               ELSE /\ p' = r.ret
                    /\ recon_' = [recon_ EXCEPT !.data = r.info]
                    /\ pc' = "search"
            /\ calls' = <<"prob_dlcoal_recon_topology">> \o r.raised
    /\ UNCHANGED <<nsearch, nsamples, i, maxp, maxrecon, prop, enum_left,
                   coal_recons, log, call, ncalls, accepted, heap, result>>
    /\ nscored' = IF exc' = "none" THEN nscored + 1 ELSE nscored

\* recon: self.eval_search(p, proposal)
EvalSearch ==
    /\ pc = "search"
    /\ log' = LogProposal(log, recon_)
    /\ IF Better(p, maxp)
       THEN /\ maxp' = p
            /\ maxrecon' = CopyRecon(recon_)
            /\ prop' = Accept(prop)
            /\ calls' = <<"log_proposal", "copy", "accept">>
       ELSE /\ prop' = Reject(prop)
            /\ calls' = <<"log_proposal", "reject">>
            /\ UNCHANGED <<maxp, maxrecon>>
    /\ trees' = Live(trees, recon_, maxrecon')
    /\ coal_recons' = Live(coal_recons, recon_, maxrecon')
    /\ pc' = "next"
    /\ UNCHANGED <<nsearch, nsamples, i, p, recon_, enum_left, locus_search,
                   coal_tree, fallback, warned, call, ncalls, exc, nscored, accepted,
                   heap, result>>

\* DLCoalReconProposer.next_proposal, called for the candidate after
\* candidate i + 1
ProposerNextProposal ==
    /\ LET w == NextProposalWalk([kind |-> "", prop |-> prop,
                                  enum_left |-> enum_left, calls |-> << >>])
           cand == i + 2
       IN  IF w.kind = "variant"
           THEN /\ prop' = w.prop
                /\ enum_left' = w.enum_left
                /\ coal_recons' =
                     [coal_recons EXCEPT ![recon_.coal_recon] = @ + 1]
                /\ recon_' = VariantRecon(recon_, cand)
                /\ calls' = w.calls
                /\ UNCHANGED <<locus_search, trees, coal_tree>>
           ELSE LET ls0 == IF NeedsRevert(w.prop) THEN Revert(locus_search)
                           ELSE locus_search
                    pre == IF NeedsRevert(w.prop)
                           THEN <<"locus_search.revert">> ELSE << >>
                IN  \E tops \in Attempts(ls0, 0, MaxTries),
                       el \in 0 .. MaxEnum :
                      \E ls1 \in {Propose(ls0, tops)} :
                      \E lt \in {RenameNodes(ReconRoot(ProposalTree(
                                       ls1.tree)), DefaultPrefix)} :
                        LET r == ReconLca(cand, lt, cand)
                        IN  /\ locus_search' = [ls1 EXCEPT !.tree = Seen(@, lt)]
                            /\ coal_tree' = Seen(Seen(coal_tree, ls1.tree), lt)
                            /\ prop' = [w.prop EXCEPT !.accept_locus = FALSE,
                                                      !.i_coal_recons = 0]
                            /\ enum_left' = el
                            /\ recon_' = r
                            /\ trees' = Live(trees @@ (cand :> lt), r, maxrecon)
                            /\ coal_recons' =
                                 Live(coal_recons @@ (cand :> 0), r, maxrecon)
                            /\ calls' = w.calls \o pre
                                        \o <<"locus_search.propose">>
    /\ UNCHANGED <<nsearch, nsamples, p, maxp, maxrecon, fallback,
                   warned, log, call, ncalls, exc, nscored, accepted,
                   heap, result>>

\* recon: proposal = self.proposer.next_proposal(), and the loop test
NextProposal ==
    /\ pc = "next"
    /\ ProposerNextProposal
    /\ i' = i + 1
    /\ pc' = IF LoopContinues(i + 1, nsearch) THEN "eval" ELSE "finalize"

\* recon: rename_nodes(self.maxrecon.locus_tree, self.name_internal); return
Finalize ==
    /\ pc = "finalize"
    /\ trees' = [trees EXCEPT ![maxrecon.locus_tree] =
                                  RenameNodes(@, NameInternal)]
    /\ coal_tree' = Seen(coal_tree, trees'[maxrecon.locus_tree])
    /\ locus_search' = [locus_search EXCEPT
                          !.tree = Seen(@, trees'[maxrecon.locus_tree])]
    /\ calls' = <<"rename_nodes">>
    /\ pc' = "done"
    /\ UNCHANGED <<nsearch, nsamples, i, p, maxp, maxrecon, recon_, prop,
                   enum_left, coal_recons, fallback,
                   warned, log, call, ncalls, exc, nscored, accepted,
                   heap, result>>

\* dlcoal_recon: return reconer.recon(nsearch).get_dict()
DlcoalReconReturn ==
    /\ pc = "done"
    /\ result' = GetDict(maxrecon)
    /\ calls' = <<"get_dict">>
    /\ pc' = "returned"
    /\ UNCHANGED <<nsearch, nsamples, i, p, maxp, maxrecon, recon_, prop,
                   enum_left, locus_search, coal_tree, trees, coal_recons,
                   fallback, warned, log, call, ncalls, exc, nscored, accepted,
                   heap>>

Next ==
    \/ InitSearch
    \/ EvalProposal
    \/ EvalSearch
    \/ NextProposal
    \/ Finalize
    \/ DlcoalReconReturn

Spec == Init /\ [][Next]_vars

(***************************************************************************)
(* prob_dlcoal_recon_topology called on its own, any number of times in    *)
(* one process, on a locus tree without daughters.                         *)
(***************************************************************************)
LocusTrees ==
    {[top |-> t, dists |-> 0,
      names |-> <<StrName(DefaultPrefix, 1), StrName(DefaultPrefix, 2)>>,
      name_iter |-> 3, rerooted |-> TRUE, obj |-> "locus_tree"] :
        t \in Tops}

InitProb ==
    /\ pc = "prob"
    /\ nsearch = 0
    /\ nsamples \in 1 .. MaxSamples
    /\ i = 0
    /\ p = NegInf
    /\ maxp = NegInf
    /\ maxrecon = NoRecon
    /\ recon_ = NoRecon
    /\ prop = NewProposer
    /\ enum_left = 0
    /\ locus_search = NewSearch
    /\ coal_tree \in {t \in CoalTrees : t.top = 1}
    /\ \E t \in LocusTrees : trees = (1 :> t)
    /\ coal_recons = (1 :> 0)
    /\ fallback = FALSE
    /\ warned = 0
    /\ log = << >>
    /\ calls = << >>
    /\ call = NoCall
    /\ ncalls = 0
    /\ exc = "none"
    /\ nscored = 0
    /\ accepted = << >>
    /\ heap = << >>
    /\ result = << >>

ProbCall ==
    /\ pc = "prob"
    /\ ncalls < MaxCalls
    /\ \E env \in Envs(nsamples, 0), withInfo \in BOOLEAN :
        LET dups == CountDup(trees[1].top)
            r == ProbDlcoalReconTopology(fallback, trees[1].dists, dups,
                                         withInfo, env)
        IN  /\ trees' = [trees EXCEPT ![1] = SetDists(@, r.dists)]
            /\ fallback' = r.fallback
            /\ warned' = warned + r.warned
            /\ call' = CallRecord(r, fallback, withInfo, dups, env)
            /\ exc' = r.exc
    /\ ncalls' = ncalls + 1
    /\ calls' = <<"prob_dlcoal_recon_topology">>
    /\ UNCHANGED <<pc, nsearch, nsamples, i, p, maxp, maxrecon, recon_, prop,
                   enum_left, locus_search, coal_tree, coal_recons, log,
                   nscored, accepted,
                   heap, result>>

NextProb == ProbCall

SpecProb == InitProb /\ [][NextProb]_vars

(***************************************************************************)
(* prob_locus_coal_recon_topology called on its own: call holds the        *)
(* arguments of the last call (the generic likelihood lnp and, in the      *)
(* order the loop visits the daughters, their completion                   *)
(* log-probabilities), the value returned and the number of completion     *)
(* probabilities evaluated.                                                *)
(***************************************************************************)
RECURSIVE SeqsUpTo(_, _)
SeqsUpTo(S, n) ==
    IF n = 0 THEN {<< >>}
    ELSE SeqsUpTo(S, n - 1) \cup [1 .. n -> S]

InitLocus ==
    /\ pc = "locus"
    /\ nsearch = 0
    /\ nsamples = 1
    /\ i = 0
    /\ p = NegInf
    /\ maxp = NegInf
    /\ maxrecon = NoRecon
    /\ recon_ = NoRecon
    /\ prop = NewProposer
    /\ enum_left = 0
    /\ locus_search = NewSearch
    /\ coal_tree \in {t \in CoalTrees : t.top = 1}
    /\ \E t \in LocusTrees : trees = (1 :> t)
    /\ coal_recons = (1 :> 0)
    /\ fallback = FALSE
    /\ warned = 0
    /\ log = << >>
    /\ calls = << >>
    /\ call = NoCall
    /\ ncalls = 0
    /\ exc = "none"
    /\ nscored = 0
    /\ accepted = << >>
    /\ heap = << >>
    /\ result = << >>

LocusCall ==
    /\ pc = "locus"
    /\ ncalls < MaxCalls
    /\ \E lnp \in SampleLnps \cup {LogHalf},
          cdfs \in SeqsUpTo(CdfLnps, MaxDaughters) :
        LET r == ProbLocusCoalReconTopology(lnp, cdfs)
        IN  /\ call' = [lnp |-> lnp, cdfs |-> cdfs, val |-> r.val,
                        ncalls |-> r.ncalls]
            /\ calls' = [k \in 1 .. r.ncalls |-> "cdf_mrca_bounded_multicoal"]
    /\ ncalls' = ncalls + 1
    /\ UNCHANGED <<pc, nsearch, nsamples, i, p, maxp, maxrecon, recon_, prop,
                   enum_left, locus_search, coal_tree, trees, coal_recons,
                   fallback, warned, log, exc, nscored, accepted,
                   heap, result>>

NextLocus == LocusCall

SpecLocus == InitLocus /\ [][NextLocus]_vars

(***************************************************************************)
(* A Recon record, a copy of it, and code that holds either and changes    *)
(* its data in place: data[..]["prob"] = v, or del data[..]["sub"], at any  *)
(* depth.  recon_ is the record, maxrecon its copy once taken.             *)
(***************************************************************************)
InitRecon ==
    /\ pc = "recon"
    /\ nsearch = 0
    /\ nsamples = 1
    /\ i = 0
    /\ p = NegInf
    /\ maxp = NegInf
    /\ maxrecon = NoRecon
    /\ \E t \in {x \in LocusTrees : x.top \in {1, 2}} :
          /\ trees = (1 :> t)
          /\ recon_ = [ReconLca(1, t, 1) EXCEPT !.data = 1]
    /\ prop = NewProposer
    /\ enum_left = 0
    /\ locus_search = NewSearch
    /\ coal_tree \in {t \in CoalTrees : t.top = 1}
    /\ coal_recons = (1 :> 0)
    /\ fallback = FALSE
    /\ warned = 0
    /\ log = << >>
    /\ calls = << >>
    /\ call = NoCall
    /\ ncalls = 0
    /\ exc = "none"
    /\ nscored = 0
    /\ accepted = << >>
    /\ \E d \in 0 .. MaxDepth : heap = Chain(1, d)
    /\ result = << >>

ReconFrame ==
    UNCHANGED <<pc, nsearch, nsamples, i, p, maxp, recon_, prop, enum_left,
                locus_search, coal_tree, trees, coal_recons, fallback, warned,
                log, call, ncalls, exc, nscored, accepted, result>>

\* c = r.copy()
ReconCopy ==
    /\ pc = "recon"
    /\ maxrecon = NoRecon
    /\ LET c == CopyReconOnHeap(heap, recon_)
       IN  /\ maxrecon' = c.recon
           /\ heap' = c.heap
    /\ calls' = <<"copy">>
    /\ ReconFrame

\* the data of the record (who = "record") or of its copy (who = "copy")
\* is changed in place, k levels deep
ReconMutate ==
    /\ pc = "recon"
    /\ \E who \in {"record", "copy"}, k \in 0 .. MaxDepth :
        LET r == IF who = "record" THEN recon_ ELSE maxrecon
            a == IF r = NoRecon THEN 0 ELSE ObjectAt(heap, r.data, k)
        IN  /\ a # 0
            /\ \/ heap' = [heap EXCEPT ![a]["prob"] = LogHalf]
               \/ /\ "sub" \in DOMAIN heap[a]
                  /\ heap' = [heap EXCEPT ![a] = ("prob" :> heap[a]["prob"])]
            /\ calls' = <<"mutate", who>>
    /\ UNCHANGED maxrecon
    /\ ReconFrame

NextRecon == ReconCopy \/ ReconMutate

SpecRecon == InitRecon /\ [][NextRecon]_vars

(***************************************************************************)
(* rename_nodes called on its own, on a tree whose nodes have distinct     *)
(* names, integers and strings; call holds the tree as it was before the   *)
(* last call and the prefix given.                                         *)
(***************************************************************************)
NameUniverse ==
    {IntName(1), IntName(2), StrName("n", 1), StrName("n", 2),
     StrName("x", 1)}

Prefixes == {"n", "x"}

Distinct(seq) == \A j, k \in 1 .. Len(seq) : j # k => seq[j] # seq[k]

InitRename ==
    /\ pc = "rename"
    /\ nsearch = 0
    /\ nsamples = 1
    /\ i = 0
    /\ p = NegInf
    /\ maxp = NegInf
    /\ maxrecon = NoRecon
    /\ recon_ = NoRecon
    /\ prop = NewProposer
    /\ enum_left = 0
    /\ locus_search = NewSearch
    /\ coal_tree \in {t \in CoalTrees : t.top = 1}
    /\ \E names \in {x \in SeqsUpTo(NameUniverse, MaxNodes) : Distinct(x)},
          iter \in {1, 3} :
          trees = (1 :> [top |-> 1, dists |-> 0, names |-> names,
                         name_iter |-> iter, rerooted |-> FALSE,
                         obj |-> "tree"])
    /\ coal_recons = (1 :> 0)
    /\ fallback = FALSE
    /\ warned = 0
    /\ log = << >>
    /\ calls = << >>
    /\ call = NoCall
    /\ ncalls = 0
    /\ exc = "none"
    /\ nscored = 0
    /\ accepted = << >>
    /\ heap = << >>
    /\ result = << >>

RenameCall ==
    /\ pc = "rename"
    /\ ncalls < MaxCalls
    /\ \E prefix \in Prefixes :
        /\ trees' = [trees EXCEPT ![1] = RenameNodes(@, prefix)]
        /\ call' = [before |-> trees[1], prefix |-> prefix]
    /\ ncalls' = ncalls + 1
    /\ calls' = <<"rename_nodes">>
    /\ UNCHANGED <<pc, nsearch, nsamples, i, p, maxp, maxrecon, recon_, prop,
                   enum_left, locus_search, coal_tree, coal_recons, fallback,
                   warned, log, exc, nscored, accepted, heap, result>>

NextRename == RenameCall

SpecRename == InitRename /\ [][NextRename]_vars

(***************************************************************************)
(* sample_dlcoal.  The locus tree that the birth-death sampler returns is  *)
(* a binary tree of n nodes: the empty tree (root 0), a single node, or k  *)
(* internal nodes 1..k in a chain, each labelled "spec" or "dup", with     *)
(* leaves k+1..2k+1 labelled "gene"; internal nodes have integer names.    *)
(***************************************************************************)
LocusShape(k, ev, side) ==
    [n |-> 2 * k + 1,
     root |-> 1,
     children |-> [j \in 1 .. (2 * k + 1) |->
                     IF j > k THEN << >>
                     ELSE IF j = k THEN <<2 * k, 2 * k + 1>>
                     ELSE IF side[j] = 1 THEN <<j + 1, k + j>>
                     ELSE <<k + j, j + 1>>],
     events |-> [j \in 1 .. (2 * k + 1) |-> IF j > k THEN "gene" ELSE ev[j]],
     names |-> [j \in 1 .. (2 * k + 1) |->
                  IF j > k THEN StrName("g", j) ELSE IntName(j)],
     name_iter |-> 2 * k + 2]

EmptyLocusTree ==
    [n |-> 0, root |-> 0, children |-> << >>, events |-> << >>,
     names |-> << >>, name_iter |-> 1]

SampledLocusTrees ==
    {EmptyLocusTree}
    \cup {LocusShape(k, ev, side) :
             k \in 0 .. MaxInternal,
             ev \in [1 .. MaxInternal -> {"spec", "dup"}],
             side \in [1 .. MaxInternal -> {1, 2}]}

\* len(locus_tree.leaves())
NumLeaves(lt) == Cardinality({j \in 1 .. lt.n : lt.children[j] = << >>})

\* the nodes with locus_events[node] == "dup"
DupNodes(lt) == {j \in 1 .. lt.n : lt.events[j] = "dup"}

\* a test that takes only the empty tree for extinct
ExtinctOnlyEmpty(lt) == lt.n < 1

\* total extinction: len(locus_tree.nodes) <= 1
Extinct(lt) == lt.n <= 1

\* choose daughter duplications: picks[node] is what random.randint(0, 1)
\* returns for the duplication node
ChooseDaughters(lt, picks) ==
    {lt.children[d][picks[d] + 1] : d \in DupNodes(lt)}

\* coal_tree = treelib.Tree(); coal_tree.make_root()
SingleRootTree == [names |-> <<IntName(1)>>, name_iter |-> 2]

\* the coalescent tree that sample_locus_coal_tree returns for a locus
\* tree: one lineage per leaf of the locus tree under one root
SampledCoalTree(lt) ==
    [names |-> [j \in 1 .. (NumLeaves(lt) + 1) |->
                  IF j > NumLeaves(lt) THEN IntName(1) ELSE StrName("g", j)],
     name_iter |-> 2]

\* sample_dlcoal, once the locus tree lt is drawn; prefix is name_internal
\* ("": no renaming)
SampleDlcoal(lt, picks, prefix) ==
    LET daughters == IF Extinct(lt) THEN {} ELSE ChooseDaughters(lt, picks)
        ct == IF Extinct(lt) THEN SingleRootTree ELSE SampledCoalTree(lt)
        coal_recon == [j \in 1 .. Len(ct.names) |-> lt.root]
    IN  [coal_tree |-> IF prefix # "" THEN RenameNodes(ct, prefix) ELSE ct,
         locus_tree |-> IF prefix # "" THEN RenameNodes(lt, prefix) ELSE lt,
         locus_events |-> lt.events,
         coal_recon |-> coal_recon,
         daughters |-> daughters]

\* the calls that sample_dlcoal makes once the locus tree is drawn
SampleDelegates(lt, prefix, reject, remove_single) ==
    (IF Extinct(lt) THEN <<"make_root">>
     ELSE (IF reject THEN <<"sample_locus_coal_tree_reject">>
           ELSE <<"sample_locus_coal_tree">>)
          \o (IF remove_single
              THEN <<"remove_single_children", "subset_recon">> ELSE << >>))
    \o (IF prefix # "" THEN <<"rename_nodes", "rename_nodes">> ELSE << >>)

InitSample ==
    /\ pc = "sample"
    /\ nsearch = 0
    /\ nsamples = 1
    /\ i = 0
    /\ p = NegInf
    /\ maxp = NegInf
    /\ maxrecon = NoRecon
    /\ recon_ = NoRecon
    /\ prop = NewProposer
    /\ enum_left = 0
    /\ locus_search = NewSearch
    /\ coal_tree \in {t \in CoalTrees : t.top = 1}
    /\ trees = << >>
    /\ coal_recons = << >>
    /\ fallback = FALSE
    /\ warned = 0
    /\ log = << >>
    /\ calls = << >>
    /\ call = NoCall
    /\ ncalls = 0
    /\ exc = "none"
    /\ nscored = 0
    /\ accepted = << >>
    /\ heap = << >>
    /\ result = << >>

\* one call: no state is carried from one call to the next
SampleCall ==
    /\ pc = "sample"
    /\ ncalls = 0
    /\ \E lt \in SampledLocusTrees, minsize \in {0, 1},
          prefix \in {""} \cup Prefixes, reject \in BOOLEAN,
          remove_single \in BOOLEAN :
        /\ NumLeaves(lt) >= minsize
        /\ \E picks \in [DupNodes(lt) -> {0, 1}] :
            /\ result' = SampleDlcoal(lt, picks, prefix)
            /\ call' = [locus_tree |-> lt, picks |-> picks,
                        prefix |-> prefix]
        /\ calls' = SampleDelegates(lt, prefix, reject, remove_single)
    /\ ncalls' = ncalls + 1
    /\ exc' = "none"
    /\ UNCHANGED <<pc, nsearch, nsamples, i, p, maxp, maxrecon, recon_, prop,
                   enum_left, locus_search, coal_tree, trees, coal_recons,
                   fallback, warned, log, nscored, accepted, heap>>

NextSample == SampleCall

SpecSample == InitSample /\ [][NextSample]_vars

(***************************************************************************)
(* A UniqueTreeSearch driven on its own: set_tree, propose, revert and     *)
(* reset in any order.  accepted lists, for the calls of propose since the *)
(* last reset, the hash of the topology returned and whether that          *)
(* topology was novel when the retry loop ended.  call is the call of      *)
(* propose just made, if that is what was called last or what was called   *)
(* before a revert made last: the search before it, the topologies the     *)
(* delegate proposed, the topology the delegate held at each attempt, the  *)
(* tree returned.                                                          *)
(***************************************************************************)
InitUnique ==
    /\ pc = "unique"
    /\ nsearch = 0
    /\ nsamples = 1
    /\ i = 0
    /\ p = NegInf
    /\ maxp = NegInf
    /\ maxrecon = NoRecon
    /\ recon_ = NoRecon
    /\ prop = NewProposer
    /\ enum_left = 0
    /\ \E t \in CoalTrees : /\ coal_tree = t
                            /\ locus_search =
                                 SetTree(NewSearch, CopyTree(t, "search"))
    /\ trees = << >>
    /\ coal_recons = << >>
    /\ fallback = FALSE
    /\ warned = 0
    /\ log = << >>
    /\ calls = << >>
    /\ call = NoCall
    /\ ncalls = 0
    /\ exc = "none"
    /\ nscored = 0
    /\ accepted = << >>
    /\ heap = << >>
    /\ result = << >>

UniqueFrame ==
    UNCHANGED <<pc, nsearch, nsamples, i, p, maxp, maxrecon, recon_, prop,
                enum_left, coal_tree, trees, coal_recons, fallback, warned,
                log, ncalls, exc, nscored, heap, result>>

UniquePropose ==
    /\ pc = "unique"
    /\ Len(accepted) < MaxProposals
    /\ \E tops \in Attempts(locus_search, 0, MaxTries) :
        LET us == Propose(locus_search, tops)
        IN  /\ locus_search' = us
            /\ accepted' = Append(accepted,
                   [hash |-> TreeHash(us.tree),
                    novel |-> Novel(locus_search.seen, TreeHash(us.tree)),
                    tries |-> Len(tops)])
            /\ calls' = ProposeCalls(locus_search, tops)
            /\ call' = [before |-> locus_search, tops |-> tops,
                        asked |-> ProposeLoop(locus_search, tops, 0).asked,
                        ret |-> us.tree]
    /\ UniqueFrame

UniqueRevert ==
    /\ pc = "unique"
    /\ locus_search' = Revert(locus_search)
    /\ calls' = <<"search.revert">>
    /\ UNCHANGED accepted
    /\ call' = IF calls # << >> /\ calls[Len(calls)] = "search.propose"
               THEN call ELSE NoCall
    /\ UniqueFrame

UniqueReset ==
    /\ pc = "unique"
    /\ locus_search' = Reset(locus_search)
    /\ accepted' = << >>
    /\ calls' = <<"search.reset">>
    /\ call' = NoCall
    /\ UniqueFrame

UniqueSetTree ==
    /\ pc = "unique"
    /\ \E t \in LocusTrees : locus_search' = SetTree(locus_search, t)
    /\ calls' = <<"search.set_tree">>
    /\ UNCHANGED accepted
    /\ call' = NoCall
    /\ UniqueFrame

NextUnique == UniquePropose \/ UniqueRevert \/ UniqueReset \/ UniqueSetTree

SpecUnique == InitUnique /\ [][NextUnique]_vars

(***************************************************************************)
(* A DLCoalRecon driven by hand: the caller constructs it, calls            *)
(* init_search() and the proposer's init_proposal(), and then asks for     *)
(* proposals, from the proposer or through DLCoalRecon.next_proposal().    *)
(* i counts the proposals asked for.                                       *)
(***************************************************************************)
\* the attributes of a DLCoalRecon: what __init__ and init_search set on
\* the instance, and the methods of the class
ReconAttrs ==
    {"coal_tree", "stree", "gene2species", "n", "duprate", "lossrate",
     "pretime", "premean", "maxdoom", "nsamples", "name_internal",
     "log_stream", "proposer", "maxp", "maxrecon",
     "set_proposer", "set_log", "recon", "init_search", "next_proposal",
     "eval_proposal", "eval_search", "log_proposal"}

\* the attribute lookup self.<name> succeeds
HasAttr(name) == name \in ReconAttrs

InitByHand ==
    /\ pc = "constructed"
    /\ nsearch = 0
    /\ nsamples = 1
    /\ i = 0
    /\ p = NegInf
    /\ maxp = NegInf
    /\ maxrecon = NoRecon
    /\ recon_ = NoRecon
    /\ prop = NewProposer
    /\ enum_left = 0
    /\ locus_search = NewSearch
    /\ coal_tree \in CoalTrees
    /\ trees = << >>
    /\ coal_recons = << >>
    /\ fallback = FALSE
    /\ warned = 0
    /\ log = << >>
    /\ calls = << >>
    /\ call = NoCall
    /\ ncalls = 0
    /\ exc = "none"
    /\ nscored = 0
    /\ accepted = << >>
    /\ heap = << >>
    /\ result = << >>

\* reconer.init_search(); reconer.proposer.init_proposal()
HandInitSearch ==
    /\ pc = "constructed"
    /\ \E el \in 0 .. MaxEnum :
        LET ls == SetTree(locus_search, CopyTree(coal_tree, "search"))
            lt == ProposalTree(ls.tree)
            r == ReconLca(1, lt, 1)
        IN  /\ locus_search' = ls
            /\ prop' = [prop EXCEPT !.i_coal_recons = 0]
            /\ trees' = (1 :> lt)
            /\ coal_recons' = (1 :> 0)
            /\ enum_left' = el
            /\ recon_' = r
    /\ maxp' = InitMaxp
    /\ maxrecon' = NoRecon
    /\ calls' = <<"init_search", "init_proposal">>
    /\ pc' = "hand"
    /\ UNCHANGED <<nsearch, nsamples, i, p, coal_tree, fallback, warned, log,
                   call, ncalls, exc, nscored, accepted, heap, result>>

\* reconer.proposer.next_proposal()
HandProposerNext ==
    /\ pc = "hand"
    /\ i < MaxSearch
    /\ ProposerNextProposal
    /\ i' = i + 1
    /\ pc' = "hand"

\* DLCoalRecon.next_proposal(): self.proposal.next_proposal(), and no
\* return statement.  Where the lookup of self.proposal fails,
\* AttributeError leaves the method; otherwise the method would call
\* next_proposal on what it found and return None (result stays empty).
DLCoalReconNextProposal ==
    /\ pc = "hand"
    /\ i < MaxSearch
    /\ IF HasAttr("proposal")
       THEN /\ ProposerNextProposal
            /\ i' = i + 1
            /\ pc' = "called"
       ELSE /\ exc' = "AttributeError"
            /\ calls' = << >>
            /\ pc' = "raised"
            /\ UNCHANGED <<nsearch, nsamples, i, p, maxp, maxrecon, recon_,
                           prop, enum_left, locus_search, coal_tree, trees,
                           coal_recons, fallback, warned, log, call, ncalls,
                           nscored, accepted, heap, result>>

NextByHand == HandInitSearch \/ HandProposerNext \/ DLCoalReconNextProposal

SpecByHand == InitByHand /\ [][NextByHand]_vars

(***************************************************************************)
(* Properties                                                              *)
(***************************************************************************)
RECURSIVE Count(_, _)
Count(seq, x) ==
    IF seq = << >> THEN 0
    ELSE (IF Head(seq) = x THEN 1 ELSE 0) + Count(Tail(seq), x)

\* the position of the first x in seq (0: none)
IndexOf(seq, x) ==
    IF \E k \in 1 .. Len(seq) : seq[k] = x
    THEN CHOOSE k \in 1 .. Len(seq) :
            seq[k] = x /\ \A j \in 1 .. (k - 1) : seq[j] # x
    ELSE 0

\* the scores of the candidates evaluated so far, as the log shows them
Scores == {log[k].prob : k \in 1 .. Len(log)}

MaxScore == CHOOSE m \in Scores : \A x \in Scores : x <= m

\* the first candidate that attained the score m
FirstWith(m) ==
    CHOOSE k \in 1 .. Len(log) :
        log[k].prob = m /\ \A j \in 1 .. (k - 1) : log[j].prob # m

\* C1: when some evaluated candidate scored above negative infinity, the
\* best record is the copy taken from the earliest candidate that attained
\* the maximum score, its data entry 'prob' is that maximum, and so is maxp;
\* this holds after every decision and so for the record recon returns.
C1_ReturnsEarliestBest ==
    (pc \in {"next", "eval", "finalize", "done", "returned"}
     /\ \E s \in Scores : s > NegInf)
    => /\ maxrecon.cand = log[FirstWith(MaxScore)].cand
       /\ maxrecon.data["prob"] = MaxScore
       /\ maxp = MaxScore

\* recon has returned after three or more candidates, the maximum was
\* attained twice and not by the first candidate
C1_Witness ==
    /\ pc = "done"
    /\ Len(log) >= 3
    /\ MaxScore > NegInf
    /\ log[1].prob < MaxScore
    /\ \E j, k \in 1 .. Len(log) :
          j < k /\ log[j].prob = MaxScore /\ log[k].prob = MaxScore
    /\ maxrecon.cand = FirstWith(MaxScore)

\* C2 (as claimed): while the best record stored by eval_search is not
\* replaced and recon has not finalized, the coal_recon mapping and the
\* locus tree it refers to stay as they were.
C2_BestNeverMutated ==
    [][(/\ pc \in {"next", "eval", "search"}
        /\ maxrecon.data # EmptyDict
        /\ maxrecon' = maxrecon)
       => /\ trees'[maxrecon.locus_tree] = trees[maxrecon.locus_tree]
          /\ coal_recons'[maxrecon.coal_recon] = coal_recons[maxrecon.coal_recon]
      ]_vars

\* the same for the locus tree alone: later scoring calls leave the
\* branch lengths of the best record's locus tree as they were
C2_BestTreeNeverMutated ==
    [][(/\ pc \in {"next", "eval", "search"}
        /\ maxrecon.data # EmptyDict
        /\ maxrecon' = maxrecon)
       => trees'[maxrecon.locus_tree] = trees[maxrecon.locus_tree]
      ]_vars

\* C3: eval_search calls exactly one of accept and reject: accept, with the
\* best score and the best record replaced, exactly when the score is
\* strictly greater than the best score; otherwise reject, with the best
\* score, the best record and the proposer left as they were.
C3_AcceptIffStrictlyBetter ==
    [][pc = "search" =>
        /\ Count(calls', "accept") + Count(calls', "reject") = 1
        /\ IF p > maxp
           THEN /\ Count(calls', "accept") = 1
                /\ maxp' = p
                /\ maxrecon' = CopyRecon(recon_)
                /\ prop'.accept_locus
           ELSE /\ Count(calls', "reject") = 1
                /\ maxp' = maxp
                /\ maxrecon' = maxrecon
                /\ prop' = prop
      ]_vars

\* a candidate whose finite score ties the best score was rejected while
\* the topology search had not been told to keep its tree
C3_Witness ==
    /\ pc = "next"
    /\ Count(calls, "reject") = 1
    /\ p = maxp
    /\ p > NegInf
    /\ ~prop.accept_locus
    /\ maxrecon.cand < recon_.cand

\* C4 (as claimed): for nsearch >= 1 the record recon returns is never one
\* of a candidate that scored negative infinity.
C4_NeverReturnsImpossible ==
    (pc = "done" /\ nsearch >= 1) => log[maxrecon.cand].prob > NegInf

\* C4 (amended): for nsearch >= 1, if some candidate scored above negative
\* infinity then the record recon returns is of a candidate that did;
\* if every candidate scored negative infinity, recon returns the copy of
\* the initial proposal that it took before scoring, with empty data.
C4_ImpossibleSuppressedUnlessAll ==
    (pc = "done" /\ nsearch >= 1) =>
        IF \E s \in Scores : s > NegInf
        THEN log[maxrecon.cand].prob > NegInf
        ELSE /\ maxrecon.cand = 1
             /\ maxrecon.data = EmptyDict
             /\ maxp = NegInf

\* recon has returned after two or more candidates that all scored
\* negative infinity
C4_Witness ==
    /\ pc = "done"
    /\ nsearch >= 2
    /\ Len(log) = nsearch
    /\ Scores = {NegInf}
    /\ maxrecon.cand = 1

\* a finite candidate came after an impossible one and recon returned it
C4_WitnessSuppressed ==
    /\ pc = "done"
    /\ Len(log) >= 2
    /\ log[1].prob = NegInf
    /\ log[maxrecon.cand].prob > NegInf

\* C5: recon scores the candidates one after the other, the initial
\* proposal first, and reaches the finalizing step only when exactly nsearch
\* of them are scored; until it has returned it can always take its next
\* step, and it stops before that only when a scoring call raised.
C5_BudgetBounded ==
    /\ i <= nsearch
    /\ nscored <= nsearch
    /\ pc \in {"finalize", "done", "returned"} =>
          (i = nsearch /\ nscored = nsearch)
    /\ pc \in {"eval", "next"} => nscored = i + (IF pc = "next" THEN 1 ELSE 0)
    /\ pc = "search" => (nscored = i + 1 /\ recon_.cand = nscored)
    /\ pc = "eval" => (i < nsearch /\ recon_.cand = i + 1)
    /\ pc = "raised" <=> exc # "none"
    /\ pc \notin {"returned", "raised"} => ENABLED Next

\* recon has returned after the largest budget, with candidates both
\* accepted and rejected on the way
C5_Witness ==
    /\ pc = "done"
    /\ nsearch = MaxSearch
    /\ nscored = MaxSearch
    /\ maxrecon.cand \in 2 .. (MaxSearch - 1)

\* C6: the log holds one record per scored candidate, in order, nsearch of
\* them when recon returns; eval_search writes the record of the candidate
\* it was given, with its score, before it calls accept or reject.
C6_OneLogRecordPerCandidate ==
    /\ Len(log) = IF pc = "search" THEN nscored - 1 ELSE nscored
    /\ \A k \in 1 .. Len(log) : log[k].cand = k
    /\ pc \in {"done", "returned"} => Len(log) = nsearch
    /\ pc = "next" =>
        /\ Count(calls, "log_proposal") = 1
        /\ calls[1] = "log_proposal"
        /\ IndexOf(calls, "log_proposal") < IndexOf(calls, "accept")
                                            + IndexOf(calls, "reject")
        /\ log[Len(log)] = [cand |-> i + 1, prob |-> p]

\* the log holds a rejected candidate of score negative infinity after an
\* accepted one
C6_Witness ==
    /\ pc = "next"
    /\ Len(log) >= 2
    /\ Count(calls, "reject") = 1
    /\ log[Len(log)].prob = NegInf
    /\ log[1].prob > NegInf

\* the consecutive next_proposal calls that have returned the locus tree
\* of the current proposal (a locus tree is stored at the number of the
\* candidate that it was built for)
SameTreeCalls == recon_.cand - recon_.locus_tree

C8_AcceptedHashesDistinct ==
    (\A k \in 1 .. Len(accepted) : accepted[k].novel)
    => \A j, k \in 1 .. Len(accepted) :
          j < k => accepted[j].hash # accepted[k].hash

\* three calls of propose returned three distinct topologies, one of them
\* only at a second attempt
C8_Witness ==
    /\ pc = "unique"
    /\ Len(accepted) = 3
    /\ \A k \in 1 .. 3 : accepted[k].novel
    /\ \E k \in 1 .. 3 : accepted[k].tries > 1
    /\ Cardinality({accepted[k].hash : k \in 1 .. 3}) = 3

\* C9 (as claimed): every call in which the native birth-death routine
\* raises, and the fallback routine does not, lets no exception escape and
\* returns a score computed with the fallback routine.
C9_NativeFailureAlwaysRecovered ==
    (pc = "prob" /\ ncalls > 0 /\ call.native_raises /\ call.fault = "none")
    => (call.exc = "none" /\ call.used = "fallback")

\* the duplication-loss, daughter and coalescent terms of the last call
RECURSIVE SumOfExp(_)
SumOfExp(lnps) ==
    IF lnps = << >> THEN 0
    ELSE (IF Head(lnps) = NegInf THEN 0 ELSE 2 ^ (Head(lnps) + 1))
         + SumOfExp(Tail(lnps))

CallTerms ==
    [dl |-> call.dl,
     d |-> call.dups * LogHalf,
     c |-> SafeLog(SumOfExp(call.lnps), Len(call.lnps) * 2)]

\* C10: a call that returns, returns duploss prior + daughter prior +
\* coalescent term; an info mapping that was supplied then holds the three
\* terms and their total under the four keys, the total being the value
\* returned.
C10_ScoreIsSumOfTerms ==
    (pc = "prob" /\ ncalls > 0 /\ call.exc = "none") =>
        /\ call.ret = FAdd(FAdd(CallTerms.dl, CallTerms.d), CallTerms.c)
        /\ call.withInfo =>
            /\ DOMAIN call.info = InfoKeys
            /\ call.info["duploss_prob"] = CallTerms.dl
            /\ call.info["daughters_prob"] = CallTerms.d
            /\ call.info["coal_prob"] = CallTerms.c
            /\ call.info["prob"] = call.ret
            /\ call.info["prob"] =
                 FAdd(FAdd(call.info["duploss_prob"],
                           call.info["daughters_prob"]),
                      call.info["coal_prob"])

\* a call with an info mapping on a locus tree with a duplication returned
\* a finite score whose coalescent term averages unequal samples
C10_Witness ==
    /\ pc = "prob"
    /\ ncalls > 0
    /\ call.exc = "none"
    /\ call.withInfo
    /\ call.dups = 1
    /\ call.ret > NegInf
    /\ call.info["coal_prob"] < 0
    /\ call.ret < 0

\* the position of the first daughter whose completion log-probability is
\* the sentinel (0: none)
FirstImpossible(cdfs) == IndexOf(cdfs, NegInf)

RECURSIVE SumSeq(_)
SumSeq(seq) == IF seq = << >> THEN 0 ELSE Head(seq) + SumSeq(Tail(seq))

\* C11: when the completion log-probability of some daughter is the
\* sentinel, the call returns negative infinity having evaluated the
\* daughters up to the first such one and no further; otherwise it evaluates
\* each daughter once and returns the generic log-likelihood less the sum of
\* the completion log-probabilities (negative infinity when the generic
\* log-likelihood is).
C11_DaughterShortCircuit ==
    (pc = "locus" /\ ncalls > 0) =>
        IF FirstImpossible(call.cdfs) > 0
        THEN /\ call.val = NegInf
             /\ call.ncalls = FirstImpossible(call.cdfs)
             /\ Len(calls) = FirstImpossible(call.cdfs)
        ELSE /\ call.ncalls = Len(call.cdfs)
             /\ Len(calls) = Len(call.cdfs)
             /\ call.val = IF call.lnp = NegInf THEN NegInf
                           ELSE call.lnp - SumSeq(call.cdfs)

\* a call with a finite likelihood and two daughters, the first of which
\* cannot complete, returned after one evaluation
C11_Witness ==
    /\ pc = "locus"
    /\ ncalls > 0
    /\ call.lnp > NegInf
    /\ Len(call.cdfs) = 2
    /\ call.cdfs[1] = NegInf
    /\ call.ncalls = 1
    /\ call.val = NegInf

\* a call with two daughters that both complete returned the likelihood
\* corrected upwards by both
C11_WitnessAll ==
    /\ pc = "locus"
    /\ ncalls > 0
    /\ call.lnp > NegInf
    /\ Len(call.cdfs) = 2
    /\ call.ncalls = 2
    /\ call.val > call.lnp

RECURSIVE Value(_, _)
\* the dictionary at address a as a value, nested dictionaries included
Value(h, a) ==
    IF "sub" \in DOMAIN h[a]
    THEN [prob |-> h[a]["prob"], sub |-> Value(h, h[a]["sub"])]
    ELSE [prob |-> h[a]["prob"]]

RECURSIVE Objects(_, _)
\* the addresses of the dictionary at a and of those nested in it
Objects(h, a) ==
    IF "sub" \in DOMAIN h[a] THEN {a} \cup Objects(h, h[a]["sub"]) ELSE {a}

\* C12: the dictionary that get_dict gives for a copy has the five fields
\* of the one it gives for the record, each the same object; the copy's data
\* equals the record's when the copy is taken and shares no dictionary with
\* it at any depth, so that a change made in place to the data of the one,
\* at any depth, leaves the data of the other as it was.
C12_CopySharesFieldsNotData ==
    [][(pc = "recon" /\ maxrecon' # NoRecon) =>
        /\ DOMAIN GetDict(maxrecon') = DOMAIN GetDict(recon_')
        /\ \A f \in DOMAIN GetDict(recon_') :
              GetDict(maxrecon')[f] = GetDict(recon_')[f]
        /\ Objects(heap', maxrecon'.data) \cap Objects(heap', recon_'.data) = {}
        /\ calls' = <<"copy">> =>
              Value(heap', maxrecon'.data) = Value(heap, recon_.data)
        /\ calls' = <<"mutate", "copy">> =>
              Value(heap', recon_'.data) = Value(heap, recon_.data)
        /\ (calls' = <<"mutate", "record">> /\ maxrecon # NoRecon) =>
              Value(heap', maxrecon'.data) = Value(heap, maxrecon.data)
      ]_vars

\* the data of a copy was changed two levels deep and now differs from
\* the data of the record, which still has its nested entries
C12_Witness ==
    /\ pc = "recon"
    /\ maxrecon # NoRecon
    /\ calls = <<"mutate", "copy">>
    /\ ObjectAt(heap, recon_.data, 2) # 0
    /\ ObjectAt(heap, maxrecon.data, 2) # 0
    /\ heap[ObjectAt(heap, maxrecon.data, 2)]["prob"] = LogHalf
    /\ heap[ObjectAt(heap, recon_.data, 2)]["prob"] = 0

\* the five fields of a record
FiveFields ==
    {"coal_recon", "locus_tree", "locus_recon", "locus_events", "daughters"}

C14_DictHasData ==
    pc = "returned" =>
        /\ "data" \in DOMAIN result
        /\ result["data"] = maxrecon.data

C15_ReturnedTreeRenamed ==
    pc \in {"done", "returned"} =>
        LET a == trees[maxrecon.locus_tree].names
        IN  /\ \A j \in 1 .. Len(a) : ~a[j].int /\ a[j].pre = NameInternal
            /\ Distinct(a)
            /\ Len(a) = Len(coal_tree.names)

\* C16: the record that init_proposal or next_proposal last returned has an
\* empty daughter set, whatever was accepted, rejected and proposed before,
\* and so have the best record and the dictionary that is returned.
C16_DaughtersAlwaysEmpty ==
    /\ pc # "start" => (recon_.daughters = {} /\ maxrecon.daughters = {})
    /\ pc = "returned" => result.daughters = {}

\* the search has ended on a variant of a locus tree that next_proposal
\* proposed, with a best record from a locus tree proposed earlier
C16_Witness ==
    /\ pc = "done"
    /\ recon_.locus_tree > 1
    /\ recon_.cand > recon_.locus_tree
    /\ maxrecon.locus_tree > 1
    /\ maxrecon.locus_tree < recon_.locus_tree
    /\ recon_.daughters = {}

\* the delegates whose exception nothing catches
Uncaught ==
    {"dup_loss_topology_prior", "sample_dup_times",
     "prob_locus_coal_recon_topology"}

\* C17 (as claimed): whenever a delegated subroutine raised during a
\* scoring call, the birth-death prior routine included, the search is
\* aborted.
C17_AnyDelegateFailureAborts ==
    (calls # << >> /\ calls[1] = "prob_dlcoal_recon_topology"
     /\ Len(calls) > 1)
    => pc = "raised"

\* C17 (amended): an exception of the fallback prior routine, the
\* duplication-time sampler or the coalescent likelihood leaves recon: the
\* best record, the log and the count of scored candidates stay as they
\* were, nothing is returned and no step follows.  An exception of the
\* native birth-death routine is caught: the call goes on with the fallback
\* routine where the name topology_prior is bound, and raises
\* UnboundLocalError, which aborts the search as well, where it is not.
C17_UncaughtFailureAborts ==
    [][/\ pc # "raised"
       /\ pc = "eval" =>
            LET d == Tail(calls')
            IN  /\ (\E k \in 1 .. Len(d) : d[k] \in Uncaught) =>
                      (pc' = "raised" /\ exc' = "Error")
                /\ d = <<"calc_birth_death_prior">> =>
                      IF fallback
                      THEN pc' = "raised" /\ exc' = "UnboundLocalError"
                      ELSE pc' = "search" /\ exc' = "none"
                /\ d = << >> => pc' = "search"
                /\ pc' = "raised" =>
                      /\ maxrecon' = maxrecon
                      /\ recon_' = recon_
                      /\ log' = log
                      /\ nscored' = nscored
                      /\ result' = << >>
      ]_vars

\* the duplication-time sampler raised while the second or a later
\* candidate was scored, after a candidate had been accepted, and the
\* search stopped short of its budget
C17_Witness ==
    /\ pc = "raised"
    /\ exc = "Error"
    /\ calls = <<"prob_dlcoal_recon_topology", "sample_dup_times">>
    /\ nscored >= 1
    /\ nscored < nsearch
    /\ Len(log) = nscored
    /\ maxrecon.data # EmptyDict
    /\ result = << >>

\* C18: for a locus tree of at most one node, sample_dlcoal returns, without
\* raising, a coalescent tree of a single root node, a coal_recon that maps
\* that root to the root of the locus tree and an empty daughter set; for a
\* larger locus tree the daughter set holds exactly one child of every
\* duplication node and no other node.
C18_ExtinctionAndDaughters ==
    (pc = "sample" /\ ncalls > 0) =>
        LET lt == call.locus_tree
        IN  IF lt.n <= 1
            THEN /\ exc = "none"
                 /\ Len(result.coal_tree.names) = 1
                 /\ DOMAIN result.coal_recon = {1}
                 /\ result.coal_recon[1] = lt.root
                 /\ result.daughters = {}
            ELSE /\ \A d \in 1 .. lt.n :
                      lt.events[d] = "dup" =>
                        Cardinality({c \in result.daughters :
                            \E k \in 1 .. Len(lt.children[d]) :
                                lt.children[d][k] = c}) = 1
                 /\ \A c \in result.daughters :
                      \E d \in 1 .. lt.n :
                          /\ lt.events[d] = "dup"
                          /\ \E k \in 1 .. Len(lt.children[d]) :
                                lt.children[d][k] = c

\* a call on a locus tree of a single node returned
C18_Witness ==
    /\ pc = "sample"
    /\ ncalls > 0
    /\ call.locus_tree.n = 1
    /\ Len(result.coal_tree.names) = 1
    /\ ~result.coal_tree.names[1].int
    /\ result.daughters = {}

\* a call on a locus tree with two duplications, one below the other,
\* returned two daughters, one of them a duplication node itself
C18_WitnessDaughters ==
    /\ pc = "sample"
    /\ ncalls > 0
    /\ Cardinality(DupNodes(call.locus_tree)) = 2
    /\ Cardinality(result.daughters) = 2
    /\ result.daughters \cap DupNodes(call.locus_tree) # {}

\* C19: when the enumerator of the current locus tree is exhausted after
\* fewer than num_coal_recons calls have returned a variant of that tree,
\* the next call of next_proposal returns (the search goes on, no exception
\* has escaped), having asked the exhausted enumerator at most
\* num_coal_recons times and the locus search for exactly one new
\* topology, with a record of a new locus tree and the variant index zero.
C19_ExhaustionFallsThrough ==
    [][(pc = "next" /\ enum_left = 0 /\ SameTreeCalls < NumCoalRecons) =>
        /\ pc' \in {"eval", "finalize"}
        /\ exc' = "none"
        /\ Count(calls', "enum.next") \in 1 .. NumCoalRecons
        /\ Count(calls', "locus_search.propose") = 1
        /\ calls'[Len(calls')] = "locus_search.propose"
        /\ recon_'.locus_tree # recon_.locus_tree
        /\ recon_'.locus_tree \notin DOMAIN trees
        /\ recon_'.cand = recon_.cand + 1
        /\ prop'.i_coal_recons = 0
        /\ recon_'.data = EmptyDict
      ]_vars

\* the call of next_proposal after one variant of the second locus tree
\* found the enumerator exhausted and has returned a third locus tree
C19_Witness ==
    /\ pc \in {"eval", "finalize"}
    /\ Count(calls, "enum.next") = NumCoalRecons - 1
    /\ Count(calls, "locus_search.propose") = 1
    /\ prop.i_coal_recons = 0
    /\ recon_.cand = recon_.locus_tree
    /\ recon_.locus_tree > 3
    /\ maxrecon.locus_tree = 2

\* the same with no variant at all: the enumerator of the initial locus
\* tree was empty
C19_WitnessEmpty ==
    /\ pc \in {"eval", "finalize"}
    /\ Count(calls, "enum.next") = NumCoalRecons
    /\ Count(calls, "locus_search.propose") = 1
    /\ recon_.cand = 2
    /\ recon_.locus_tree = 2

\* accept was called for a candidate on the locus tree of the current
\* proposal: the best record was stored by eval_search and its candidate is
\* not older than that tree (a locus tree is stored at the number of the
\* candidate it was built for)
AcceptedSinceMove ==
    maxrecon.data # EmptyDict /\ maxrecon.cand >= recon_.locus_tree

\* C20: when next_proposal moves the locus search to a new topology, it
\* calls revert, once and before propose, exactly when accept was not
\* called since the previous such move (since the construction of the
\* proposer for the first move); after the move the accept flag is cleared
\* and the variant index is zero.
C20_RevertIffNotAccepted ==
    [][(pc = "next" /\ Count(calls', "locus_search.propose") = 1) =>
        /\ Count(calls', "locus_search.revert")
             = (IF AcceptedSinceMove THEN 0 ELSE 1)
        /\ ~AcceptedSinceMove =>
             IndexOf(calls', "locus_search.revert")
               < IndexOf(calls', "locus_search.propose")
        /\ ~prop'.accept_locus
        /\ prop'.i_coal_recons = 0
      ]_vars

\* a move to a third topology was made without revert, after a candidate
\* on the second locus tree had been accepted
C20_Witness ==
    /\ pc \in {"eval", "finalize"}
    /\ Count(calls, "locus_search.propose") = 1
    /\ Count(calls, "locus_search.revert") = 0
    /\ recon_.cand = recon_.locus_tree
    /\ maxrecon.locus_tree = 2
    /\ ~prop.accept_locus

\* a move was made with revert first, after every candidate on the second
\* locus tree had been rejected
C20_WitnessRevert ==
    /\ pc \in {"eval", "finalize"}
    /\ calls[Len(calls)] = "locus_search.propose"
    /\ Count(calls, "locus_search.revert") = 1
    /\ recon_.cand = recon_.locus_tree
    /\ recon_.locus_tree > 2
    /\ maxrecon.locus_tree = 1
    /\ maxrecon.data # EmptyDict

JustProposed ==
    pc = "unique" /\ calls # << >> /\ calls[Len(calls)] = "search.propose"

\* the attempts of the last call whose topology had a hash not in the seen
\* set of before the call
NovelAttempts ==
    {k \in 1 .. Len(call.tops) : call.tops[k] \notin call.before.seen}

\* C22: propose returns the topology of the first attempt whose hash is
\* not in the seen set and makes no delegate call after that attempt;
\* before every attempt but the first it reverts the delegate's previous
\* proposal, so that the delegate holds the same base tree, the tree of
\* before the call, at every attempt.
C22_FirstNovelAttemptWins ==
    JustProposed =>
        /\ NovelAttempts # {} =>
             /\ NovelAttempts = {Len(call.tops)}
             /\ call.ret.top = call.tops[Len(call.tops)]
             /\ locus_search.tree.top = call.ret.top
        /\ Len(calls) = 2 * Len(call.tops) - 1
        /\ \A k \in 1 .. Len(calls) :
              calls[k] = (IF k % 2 = 1 THEN "search.propose"
                          ELSE "search.revert")
        /\ \A k \in 1 .. Len(call.tops) :
              call.asked[k] = call.before.tree.top

\* a call of propose met a seen topology at its first attempt and returned
\* the novel topology of its second
C22_Witness ==
    /\ JustProposed
    /\ Len(call.tops) = 2
    /\ call.tops[1] \in call.before.seen
    /\ call.tops[2] \notin call.before.seen
    /\ call.ret.top = call.tops[2]
    /\ calls = <<"search.propose", "search.revert", "search.propose">>

\* every rearrangement of the tree the search holds has a hash in the
\* seen set
AllNeighboursSeen ==
    \A t \in Neighbours(locus_search.tree.top) : t \in locus_search.seen

\* C23: a call of propose in which every attempt produced a topology whose
\* hash was already in the seen set has asked the delegate to propose
\* exactly maxtries times and to revert exactly maxtries - 1 times, has
\* returned the topology of the last attempt, and that hash is in the seen
\* set afterwards; and where no rearrangement is novel a call of propose
\* can still be made and returns.
C23_ExhaustedBudgetReturnsLast ==
    /\ (JustProposed /\ NovelAttempts = {}) =>
          /\ Len(call.tops) = MaxTries
          /\ Count(calls, "search.propose") = MaxTries
          /\ Count(calls, "search.revert") = MaxTries - 1
          /\ Len(calls) = 2 * MaxTries - 1
          /\ call.ret.top = call.tops[MaxTries]
          /\ locus_search.tree.top = call.tops[MaxTries]
          /\ TreeHash(call.ret) \in locus_search.seen
          /\ locus_search.seen = call.before.seen
    /\ (pc = "unique" /\ AllNeighboursSeen /\ Len(accepted) < MaxProposals)
          => ENABLED UniquePropose

\* a call of propose used its whole budget on seen topologies and returned
\* the last of them, a duplicate
C23_Witness ==
    /\ JustProposed
    /\ NovelAttempts = {}
    /\ Len(call.tops) = MaxTries
    /\ ~accepted[Len(accepted)].novel
    /\ accepted[Len(accepted)].hash = call.tops[MaxTries]
    /\ accepted[Len(accepted)].tries = MaxTries

\* revert has been called right after a call of propose
JustReverted ==
    pc = "unique" /\ calls = <<"search.revert">> /\ call # NoCall

\* C24: when propose returns, whatever the seen set and however many
\* attempts it used, the delegate has exactly one move outstanding, made
\* from the tree of before the call; revert called next leaves the delegate
\* with the tree it had before propose.
C24_ProposeThenRevertRestores ==
    /\ JustProposed =>
          /\ locus_search.last = call.before.tree.top
          /\ locus_search.tree.top \in Neighbours(call.before.tree.top)
          /\ Revert(locus_search).tree = call.before.tree
    /\ JustReverted =>
          /\ locus_search.tree = call.before.tree
          /\ locus_search.seen =
               call.before.seen \cup {TreeHash(call.ret)}

\* revert was called after a call of propose that used two attempts on a
\* search that had seen topologies before, and the tree is that of before
C24_Witness ==
    /\ JustReverted
    /\ Len(call.tops) = 2
    /\ call.before.seen # {}
    /\ call.ret.top # call.before.tree.top
    /\ locus_search.tree.top = call.before.tree.top

\* C25 (as claimed): once the native birth-death routine has failed in
\* the process (the fallback flag is set), no later call of
\* prob_dlcoal_recon_topology invokes the native routine.
C25_NativeNotRetried ==
    (pc = "prob" /\ ncalls > 0 /\ call.before) => call.native_calls = 0

\* C26: in any sequence of calls of prob_dlcoal_recon_topology the warning
\* is written at most once, and it is written by the first call in which
\* the native routine fails: a call writes it exactly when the native
\* routine fails in it and no warning was written before, so that a
\* warning has been written exactly when the native routine has failed.
C26_WarningOnceAtFirstFailure ==
    [][(pc = "prob" /\ ncalls' = ncalls + 1) =>
        /\ warned' = (IF call'.native_raises /\ warned = 0 THEN 1 ELSE warned)
        /\ call'.warned = warned' - warned
        /\ warned' \in {0, 1}
      ]_vars

\* the native routine has failed in two calls and one warning was written,
\* by the first of them
C26_Witness ==
    /\ pc = "prob"
    /\ ncalls = 2
    /\ call.native_raises
    /\ call.before
    /\ call.warned = 0
    /\ warned = 1

\* no tree that the search or a record refers to is the coalescent tree
\* object
NoTreeIsCoalTree ==
    /\ locus_search.tree.obj # coal_tree.obj
    /\ \A id \in DOMAIN trees : trees[id].obj # coal_tree.obj

\* C27: no step of recon changes the coalescent tree (its nodes, names,
\* topology and branch lengths after recon are those before it): recon
\* starts with the best score negative infinity and with the locus search
\* set to a new object with the content of the coalescent tree, and every
\* tree that is re-rooted, renamed or given branch lengths, during the
\* search and at finalization, is an object other than the coalescent tree.
C27_CoalTreeNeverMutated ==
    [][/\ coal_tree' = coal_tree
       /\ NoTreeIsCoalTree'
       /\ pc = "start" =>
            /\ maxp' = NegInf
            /\ [locus_search'.tree EXCEPT !.obj = coal_tree.obj] = coal_tree
            /\ [trees'[1] EXCEPT !.obj = coal_tree.obj] = coal_tree
      ]_vars

\* recon has returned a locus tree of a later proposal that was re-rooted,
\* renamed and given branch lengths, the locus search has moved to another
\* topology, and the coalescent tree has its integer names, its topology
\* and its branch lengths still
C27_Witness ==
    /\ pc = "done"
    /\ maxrecon.locus_tree > 1
    /\ trees[maxrecon.locus_tree].rerooted
    /\ trees[maxrecon.locus_tree].dists > 0
    /\ \A k \in 1 .. Len(trees[maxrecon.locus_tree].names) :
          ~trees[maxrecon.locus_tree].names[k].int
    /\ locus_search.tree.top # coal_tree.top
    /\ coal_tree \in CoalTrees

\* C28 (as claimed): a call of DLCoalRecon.next_proposal on a DLCoalRecon
\* whose proposer has been initialised raises nothing, has the proposer
\* produce its next proposal and returns that record.
C28_NextProposalReturnsProposal ==
    [][(pc = "hand" /\ pc' # "hand") =>
        /\ exc' = "none"
        /\ pc' = "called"
        /\ calls' # << >>
        /\ recon_'.cand = recon_.cand + 1
        /\ result' = recon_'
      ]_vars

\* the maximum of negative infinity and the scores of the candidates
\* evaluated so far
BestSoFar ==
    CHOOSE m \in Scores \cup {NegInf} : \A x \in Scores \cup {NegInf} : x <= m

\* C29: no step of recon decreases maxp, and after each iteration (once
\* eval_search has decided on the candidate scored last) maxp is the
\* maximum of negative infinity and the scores of all candidates evaluated
\* so far.
C29_MaxpIsRunningMaximum ==
    [][/\ maxp' >= maxp
       /\ pc = "search" => /\ Len(log') = i + 1
                           /\ log'[i + 1].prob = p
                           /\ maxp' = BestSoFar'
       /\ pc' # "search" => maxp' = BestSoFar'
      ]_vars

\* three candidates were evaluated; the second raised the best score above
\* that of the first, the third scored lower and left it
C29_Witness ==
    /\ pc \in {"next", "finalize"}
    /\ Len(log) = 3
    /\ NegInf < log[1].prob
    /\ log[1].prob < log[2].prob
    /\ log[3].prob < log[2].prob
    /\ maxp = log[2].prob

\* the topology of the locus tree of the best record
BestTop == trees[maxrecon.locus_tree].top

\* C30: at every move of next_proposal to a new locus topology, the tree
\* the locus search works on, after the optional revert, has the topology
\* of the best record's locus tree (the move is made from it), which is the
\* topology of the coalescent tree while the best record is still on the
\* initial locus tree; so the locus tree proposed is one rearrangement
\* away from the best one.
C30_MovesStartFromBest ==
    [][(pc = "next" /\ Count(calls', "locus_search.propose") = 1) =>
        /\ locus_search'.last = BestTop
        /\ maxrecon.locus_tree = 1 => locus_search'.last = coal_tree.top
        /\ locus_search'.tree.top \in Neighbours(BestTop)
        /\ trees'[recon_'.locus_tree].top = locus_search'.tree.top
        /\ trees'[recon_'.locus_tree].top # BestTop
      ]_vars

\* after the second locus tree was accepted and the third rejected, a
\* fourth was proposed, with a revert first, from the topology of the
\* second
C30_Witness ==
    /\ pc \in {"eval", "finalize"}
    /\ Count(calls, "locus_search.propose") = 1
    /\ Count(calls, "locus_search.revert") = 1
    /\ recon_.cand = recon_.locus_tree
    /\ maxrecon.locus_tree = 2
    /\ recon_.locus_tree = 4
    /\ locus_search.last = BestTop
    /\ BestTop # coal_tree.top

\* no locus tree that a record refers to is the tree object the locus
\* search works on
NoProposalIsSearchTree ==
    \A id \in DOMAIN trees : trees[id].obj # locus_search.tree.obj

\* C31: the locus tree of every record that init_proposal or next_proposal
\* returns is an object other than the tree the locus search works on; the
\* scoring step (branch lengths), the final renaming and the steps that
\* return a variant leave that tree as it is, and a step that moves the
\* search to a new topology, re-roots the copy and renames its nodes
\* changes the topology of that tree only.
C31_SearchTreeNeverTouched ==
    [][/\ NoProposalIsSearchTree'
       /\ (pc \in {"eval", "search", "finalize", "done"}
           \/ (pc = "next" /\ Count(calls', "locus_search.propose") = 0))
            => locus_search'.tree = locus_search.tree
       /\ pc = "next" =>
            [locus_search'.tree EXCEPT !.top = locus_search.tree.top]
              = locus_search.tree
       /\ pc' # "start" =>
            /\ recon_'.locus_tree \in DOMAIN trees'
            /\ trees'[recon_'.locus_tree].obj # locus_search'.tree.obj
      ]_vars

\* the proposal on a second topology was re-rooted, renamed and given
\* branch lengths, and recon has renamed the best record's tree, while the
\* tree of the locus search has that topology with the integer names and
\* the branch lengths of the coalescent tree, not re-rooted
C31_Witness ==
    /\ pc = "done"
    /\ recon_.locus_tree > 1
    /\ trees[recon_.locus_tree].rerooted
    /\ trees[recon_.locus_tree].dists > 0
    /\ trees[recon_.locus_tree].top = locus_search.tree.top
    /\ trees[recon_.locus_tree].names # locus_search.tree.names
    /\ ~locus_search.tree.rerooted
    /\ locus_search.tree.dists = 0
    /\ locus_search.tree.names = coal_tree.names

\* the hashes of the topologies that the calls of propose since the last
\* reset (or the construction) returned
ReturnedHashes == {accepted[k].hash : k \in 1 .. Len(accepted)}

\* C32: a call of propose adds to the seen set exactly the hash of the
\* topology it returns; revert and set_tree leave the set as it is; reset
\* empties it; so the set only grows between resets, a topology proposed
\* and then reverted stays in it, and it holds the hashes of the
\* topologies returned by propose and nothing else (the hash of the
\* starting tree is not in it until some call of propose returns it).
C32_SeenGrowsByReturnedHash ==
    [][/\ (calls' # << >> /\ calls'[Len(calls')] = "search.propose") =>
            /\ locus_search'.seen =
                 locus_search.seen \cup {TreeHash(locus_search'.tree)}
            /\ call'.ret = locus_search'.tree
       /\ calls' = <<"search.revert">> =>
            locus_search'.seen = locus_search.seen
       /\ calls' = <<"search.set_tree">> =>
            locus_search'.seen = locus_search.seen
       /\ calls' = <<"search.reset">> => locus_search'.seen = {}
       /\ calls' # <<"search.reset">> =>
            locus_search.seen \subseteq locus_search'.seen
       /\ locus_search'.seen = ReturnedHashes'
      ]_vars

\* two topologies were proposed from the starting tree and each reverted:
\* both are in the seen set, the starting topology, held again, is not
C32_Witness ==
    /\ JustReverted
    /\ Len(accepted) = 2
    /\ Cardinality(locus_search.seen) = 2
    /\ TreeHash(call.ret) \in locus_search.seen
    /\ TreeHash(locus_search.tree) \notin locus_search.seen
    /\ locus_search.tree.top = coal_tree.top

====
